---- MODULE Spec2Model ----
(***************************************************************************)
(* A model of Firestore/core/src/firebase/firestore/remote/serializer.cc:  *)
(* the Writer and Reader wrappers around nanopb streams, the FieldValue    *)
(* codec (EncodeFieldValueImpl / DecodeFieldValueImpl, the map sub-codec)  *)
(* and the Serializer facade.                                              *)
(*                                                                         *)
(* Bytes are integers 0..255 and strings are sequences of bytes.  A 64-bit *)
(* integer is kept as its bit pattern: ten 7-bit groups, least significant *)
(* first, the tenth group holding bit 63 alone.  This is the shape a varint*)
(* has on the wire, and it keeps int64_t/uint64_t conversions exact.       *)
(***************************************************************************)
EXTENDS Integers, Sequences, FiniteSets, TLC

VARIABLES
    pc,          \* where the caller is: "build", "encoded", "ready", "decoded", "aborted"
    value,       \* the FieldValue handed to Serializer::EncodeFieldValue
    out_bytes,   \* the caller's std::vector<uint8_t> after encoding
    enc_status,  \* what EncodeFieldValue returned: "none" before the call
    input,       \* the bytes handed to Serializer::DecodeFieldValue
    how,         \* how input was derived from out_bytes
    decoded,     \* what Serializer::DecodeFieldValue produced
    kpc,         \* where the caller of the key codec is
    database_id, \* the DatabaseId the Serializer was constructed with
    document_key, \* the DocumentKey handed to Serializer::EncodeKey, as its path
    name,        \* the string EncodeKey returned, then the one handed to DecodeKey
    decoded_key  \* what Serializer::DecodeKey produced

\* The variables of the key codec's caller.
kvars == <<kpc, database_id, document_key, name, decoded_key>>

vars == <<pc, value, out_bytes, enc_status, input, how, decoded, kvars>>

-----------------------------------------------------------------------------
(* Bounds of the model. *)

\* Nesting depth of objects the caller builds.
MaxDepth == 1

\* Entries per object the caller builds.
MaxEntries == 2

\* Length of the byte strings received that no encoder produced.
MaxRawLen == 3

\* Segments of the path of a DocumentKey.
MaxSegments == 2

-----------------------------------------------------------------------------
(* Wire constants, from the nanopb headers the source includes. *)

PB_WT_VARINT == 0
PB_WT_STRING == 2

Value_boolean_value_tag == 1
Value_integer_value_tag == 2
Value_map_value_tag == 6
Value_timestamp_value_tag == 10
Value_null_value_tag == 11
Value_string_value_tag == 17

MapValue_fields_tag == 1
FieldsEntry_key_tag == 1
FieldsEntry_value_tag == 2

Timestamp_seconds_tag == 1
Timestamp_nanos_tag == 2

NullValue_NULL_VALUE == 0

kMaxDocumentSize == 1048572

MaxNanos == 999999999

-----------------------------------------------------------------------------
(* 64-bit and 32-bit integers as 7-bit groups. *)

RECURSIVE Groups(_, _)
\* The k low 7-bit groups of the two's complement pattern of n.
Groups(n, k) ==
    IF k = 0 THEN <<>> ELSE <<n % 128>> \o Groups(n \div 128, k - 1)

\* (uint64_t) n for a model integer n, sign extended as the C++ conversion does.
ToU64(n) ==
    LET g == Groups(n, 10) IN [g EXCEPT ![10] = g[10] % 2]

Zero64 == ToU64(0)

\* Unsigned and signed order on 64-bit patterns.
ULess(a, b) ==
    \E k \in 1..10 : a[k] < b[k] /\ \A j \in (k + 1)..10 : a[j] = b[j]

SLess(a, b) ==
    IF a[10] # b[10] THEN a[10] = 1 ELSE ULess(a, b)

\* (int32_t) of a 64-bit pattern: the low 32 bits, read as signed.
ToInt32(v) ==
    LET lo == v[1] + 128 * v[2] + 16384 * v[3] + 2097152 * v[4]
        hi == v[5] % 16
    IN  IF hi >= 8 THEN (hi - 16) * 268435456 + lo ELSE hi * 268435456 + lo

\* TimestampInternal::Min().seconds() = -62135596800 and
\* TimestampInternal::Max().seconds() = 253402300799, as 64-bit patterns.
MinSeconds == <<0, 18, 56, 67, 24, 126, 127, 127, 127, 1>>
MaxSeconds == <<127, 2, 81, 127, 47, 7, 0, 0, 0, 0>>

\* A uint32_t read by pb_decode_varint32: five groups, the fifth holding 4 bits.
U32IsZero(u) == \A k \in 1..5 : u[k] = 0
\* temp >> 3 and temp & 7
U32Shr3(u) ==
    (u[1] \div 8) + 16 * u[2] + 2048 * u[3] + 262144 * u[4] + 33554432 * u[5]
U32And7(u) == u[1] % 8
\* u > n for a small n (n < 2^28)
U32Greater(u, n) ==
    u[5] > 0 \/ u[1] + 128 * u[2] + 16384 * u[3] + 2097152 * u[4] > n
\* the value of u when it is below 2^28
U32Small(u) == u[1] + 128 * u[2] + 16384 * u[3] + 2097152 * u[4]

-----------------------------------------------------------------------------
(* FieldValue, the domain type the codec carries. *)

EmptyMap == [k \in {} |-> 0]

Epoch == [seconds |-> Zero64, nanoseconds |-> 0]

FieldValue(type, b, i, s, ts, m) ==
    [type |-> type, boolean_value |-> b, integer_value |-> i,
     string_value |-> s, timestamp_value |-> ts, object_value |-> m]

NullValue == FieldValue("Null", FALSE, Zero64, <<>>, Epoch, EmptyMap)
BooleanValue(b) == FieldValue("Boolean", b, Zero64, <<>>, Epoch, EmptyMap)
IntegerValue(i) == FieldValue("Integer", FALSE, i, <<>>, Epoch, EmptyMap)
StringValue(s) == FieldValue("String", FALSE, Zero64, s, Epoch, EmptyMap)
TimestampValue(ts) == FieldValue("Timestamp", FALSE, Zero64, <<>>, ts, EmptyMap)
ObjectValueFromMap(m) == FieldValue("Object", FALSE, Zero64, <<>>, Epoch, m)
\* A variant the codec does not implement.
DoubleValue == FieldValue("Double", FALSE, Zero64, <<>>, Epoch, EmptyMap)

\* std::string order (bytes compared as unsigned char), the order of ObjectValue::Map.
StringLess(a, b) ==
    \/ Len(a) < Len(b) /\ \A j \in 1..Len(a) : a[j] = b[j]
    \/ \E k \in 1..Len(a) :
          /\ k <= Len(b)
          /\ a[k] < b[k]
          /\ \A j \in 1..(k - 1) : a[j] = b[j]

\* The keys of a map in iteration order.
RECURSIVE SortedKeys(_)
SortedKeys(ks) ==
    IF ks = {} THEN <<>>
    ELSE LET first == CHOOSE k \in ks : \A o \in ks \ {k} : StringLess(k, o)
         IN  <<first>> \o SortedKeys(ks \ {first})

-----------------------------------------------------------------------------
(* nanopb input streams (pb_istream_t over a buffer), as the Reader uses    *)
(* them.  A stream is the fields buf, pos (the state pointer, an index into *)
(* buf), bytes_left and errmsg ("" is a null errmsg) of a Reader record.    *)
(*                                                                          *)
(* Only({e : x \in {a}}) is e with x bound to the value of a: the result of *)
(* a call is bound this way where it is used more than once.                *)

Only(set) == CHOOSE x \in set : TRUE

\* PB_SET_ERROR keeps the first message; PB_GET_ERROR reads it.
PB_SET_ERROR(s, msg) ==
    [s EXCEPT !.errmsg = IF s.errmsg = "" THEN msg ELSE s.errmsg]

PB_GET_ERROR(s) == IF s.errmsg = "" THEN "(none)" ELSE s.errmsg

\* pb_read(stream, buf, count): count bytes or "end-of-stream".
pb_read(s, count) ==
    IF s.bytes_left < count
    THEN [ok |-> FALSE, s |-> PB_SET_ERROR(s, "end-of-stream"), bytes |-> <<>>]
    ELSE [ok |-> TRUE,
          s |-> [s EXCEPT !.pos = s.pos + count,
                          !.bytes_left = s.bytes_left - count],
          bytes |-> SubSeq(s.buf, s.pos, s.pos + count - 1)]

\* The bits of the (k+1)-th byte of a varint that fit the width: the 64th bit
\* alone in the tenth byte of a uint64_t, four bits in the fifth of a uint32_t.
KeptBits(byte, k, limit) ==
    IF limit = 10 /\ k = 9 THEN (byte % 128) % 2
    ELSE IF limit = 5 /\ k = 4 THEN (byte % 128) % 16
    ELSE byte % 128

RECURSIVE pb_decode_varint_from(_, _, _, _)
\* The loop shared by pb_decode_varint (limit 10 bytes, 64 bits) and
\* pb_decode_varint32 (limit 5 bytes, 32 bits): k bytes are read so far.
pb_decode_varint_from(s, k, acc, limit) ==
    IF k >= limit
    THEN [ok |-> FALSE, s |-> PB_SET_ERROR(s, "varint overflow"), value |-> acc]
    ELSE IF s.bytes_left = 0
    THEN [ok |-> FALSE, s |-> PB_SET_ERROR(s, "end-of-stream"), value |-> acc]
    ELSE IF s.buf[s.pos] >= 128
    THEN pb_decode_varint_from(
             [s EXCEPT !.pos = s.pos + 1, !.bytes_left = s.bytes_left - 1],
             k + 1,
             [acc EXCEPT ![k + 1] = KeptBits(s.buf[s.pos], k, limit)],
             limit)
    ELSE [ok |-> TRUE,
          s |-> [s EXCEPT !.pos = s.pos + 1, !.bytes_left = s.bytes_left - 1],
          value |-> [acc EXCEPT ![k + 1] = KeptBits(s.buf[s.pos], k, limit)]]

pb_decode_varint(s) == pb_decode_varint_from(s, 0, Zero64, 10)

pb_decode_varint32(s) == pb_decode_varint_from(s, 0, <<0, 0, 0, 0, 0>>, 5)

\* pb_decode_tag: a zero tag and a failed read both return false.
pb_decode_tag(s) ==
    Only({ IF ~d.ok
           THEN [ok |-> FALSE, s |-> d.s, eof |-> (d.s.bytes_left = 0),
                 wire_type |-> 0, field_number |-> 0]
           ELSE IF U32IsZero(d.value)
           THEN [ok |-> FALSE, s |-> d.s, eof |-> TRUE,
                 wire_type |-> 0, field_number |-> 0]
           ELSE [ok |-> TRUE, s |-> d.s, eof |-> FALSE,
                 wire_type |-> U32And7(d.value), field_number |-> U32Shr3(d.value)]
           : d \in {pb_decode_varint32(s)} })

\* pb_make_string_substream: the parent gives up `size` bytes to the substream.
\* When the length cannot be read the substream is left uninitialized (init
\* FALSE); its fields are never read on that path.
pb_make_string_substream(s) ==
    Only({ IF ~d.ok
           THEN [ok |-> FALSE, s |-> d.s, sub |-> d.s, init |-> FALSE]
           ELSE IF U32Greater(d.value, d.s.bytes_left)
           THEN [ok |-> FALSE, s |-> PB_SET_ERROR(d.s, "parent stream too short"),
                 sub |-> d.s, init |-> TRUE]
           ELSE [ok |-> TRUE,
                 s |-> [d.s EXCEPT !.bytes_left = d.s.bytes_left - U32Small(d.value)],
                 sub |-> [d.s EXCEPT !.bytes_left = U32Small(d.value)],
                 init |-> TRUE]
           : d \in {pb_decode_varint32(s)} })

\* pb_close_string_substream (nanopb 0.3.8): the parent takes the substream's
\* position and errmsg; nothing is drained.
pb_close_string_substream(s, sub) ==
    [s EXCEPT !.pos = sub.pos, !.errmsg = sub.errmsg]

RECURSIVE pb_skip_varint(_)
pb_skip_varint(s) ==
    IF s.bytes_left = 0
    THEN [ok |-> FALSE, s |-> PB_SET_ERROR(s, "end-of-stream")]
    ELSE IF s.buf[s.pos] >= 128
    THEN pb_skip_varint([s EXCEPT !.pos = s.pos + 1, !.bytes_left = s.bytes_left - 1])
    ELSE [ok |-> TRUE,
          s |-> [s EXCEPT !.pos = s.pos + 1, !.bytes_left = s.bytes_left - 1]]

\* pb_read(stream, NULL, count)
pb_skip_bytes(s, count) ==
    IF s.bytes_left < count
    THEN [ok |-> FALSE, s |-> PB_SET_ERROR(s, "end-of-stream")]
    ELSE [ok |-> TRUE,
          s |-> [s EXCEPT !.pos = s.pos + count, !.bytes_left = s.bytes_left - count]]

pb_skip_string(s) ==
    Only({ IF ~d.ok THEN [ok |-> FALSE, s |-> d.s]
           ELSE IF U32Greater(d.value, d.s.bytes_left)
           THEN [ok |-> FALSE, s |-> PB_SET_ERROR(d.s, "end-of-stream")]
           ELSE pb_skip_bytes(d.s, U32Small(d.value))
           : d \in {pb_decode_varint32(s)} })

\* pb_skip_field, by wire type: 0 varint, 1 64 bit, 2 string, 5 32 bit.
pb_skip_field(s, wire_type) ==
    CASE wire_type = 0 -> pb_skip_varint(s)
      [] wire_type = 1 -> pb_skip_bytes(s, 8)
      [] wire_type = 2 -> pb_skip_string(s)
      [] wire_type = 5 -> pb_skip_bytes(s, 4)
      [] OTHER -> [ok |-> FALSE, s |-> PB_SET_ERROR(s, "invalid wire_type")]

RECURSIVE pb_decode_Timestamp(_, _)
\* pb_decode(stream, google_protobuf_Timestamp_fields, &proto): fields are read
\* until the stream is empty or a tag reads as end of message; an unknown field
\* is skipped; a known field is read as a varint whatever its wire type; a
\* failure leaves the fields decoded so far in the struct.
pb_decode_Timestamp(s, proto) ==
    IF s.bytes_left = 0 THEN [ok |-> TRUE, s |-> s, proto |-> proto]
    ELSE Only({
        IF ~t.ok
        THEN [ok |-> t.eof, s |-> t.s, proto |-> proto]
        ELSE IF t.field_number \notin {Timestamp_seconds_tag, Timestamp_nanos_tag}
        THEN Only({ IF ~k.ok THEN [ok |-> FALSE, s |-> k.s, proto |-> proto]
                    ELSE pb_decode_Timestamp(k.s, proto)
                    : k \in {pb_skip_field(t.s, t.wire_type)} })
        ELSE Only({ IF ~d.ok THEN [ok |-> FALSE, s |-> d.s, proto |-> proto]
                    ELSE pb_decode_Timestamp(d.s,
                             IF t.field_number = Timestamp_seconds_tag
                             THEN [proto EXCEPT !.seconds = d.value]
                             ELSE [proto EXCEPT !.nanos = ToInt32(d.value)])
                    : d \in {pb_decode_varint(t.s)} })
        : t \in {pb_decode_tag(s)} })

-----------------------------------------------------------------------------
(* Reader.  A Reader is its nanopb stream (buf, pos, bytes_left, errmsg),   *)
(* its status_ ("OK", or the message of a DataLoss status) and `aborted`,   *)
(* set when a FIREBASE_ASSERT has failed: the process is gone and nothing   *)
(* after it runs.  Operations return the Reader after the call as r and the *)
(* value returned as v.                                                     *)

\* Reader::Wrap(bytes, length)
ReaderWrap(bytes) ==
    [buf |-> bytes, pos |-> 1, bytes_left |-> Len(bytes), errmsg |-> "",
     status |-> "OK", aborted |-> FALSE]

\* the guard `if (!status_.ok()) return ...`; nothing runs after an abort either
Halted(r) == r.aborted \/ r.status # "OK"

\* Reader::set_status
set_status(r, status) ==
    IF r.aborted THEN r ELSE [r EXCEPT !.status = status]

\* a failed FIREBASE_ASSERT
Abort(r) == [r EXCEPT !.aborted = TRUE]

NoTag == [wire_type |-> 0, field_number |-> 0]

\* Reader::ReadTag
ReadTag(r) ==
    IF Halted(r) THEN [r |-> r, v |-> NoTag]
    ELSE Only({ IF ~t.ok
                THEN [r |-> [t.s EXCEPT !.status = PB_GET_ERROR(t.s)], v |-> NoTag]
                ELSE [r |-> t.s,
                      v |-> [wire_type |-> t.wire_type,
                             field_number |-> t.field_number]]
                : t \in {pb_decode_tag(r)} })

\* Reader::ReadVarint
ReadVarint(r) ==
    IF Halted(r) THEN [r |-> r, v |-> Zero64]
    ELSE Only({ IF ~d.ok
                THEN [r |-> [d.s EXCEPT !.status = PB_GET_ERROR(d.s)], v |-> Zero64]
                ELSE [r |-> d.s, v |-> d.value]
                : d \in {pb_decode_varint(r)} })

\* A ReadNull that takes any varint for the null value.
ReadNullUnchecked(r) == ReadVarint(r).r

\* Reader::ReadNull
ReadNull(r) ==
    Only({ IF Halted(d.r) THEN d.r
           ELSE IF d.v # ToU64(NullValue_NULL_VALUE)
           THEN [d.r EXCEPT !.status =
                     "Input proto bytes cannot be parsed (invalid null value)"]
           ELSE d.r
           : d \in {ReadVarint(r)} })

\* Reader::ReadBool
ReadBool(r) ==
    Only({ IF Halted(d.r) THEN [r |-> d.r, v |-> FALSE]
           ELSE IF d.v = ToU64(0) THEN [r |-> d.r, v |-> FALSE]
           ELSE IF d.v = ToU64(1) THEN [r |-> d.r, v |-> TRUE]
           ELSE [r |-> [d.r EXCEPT !.status =
                            "Input proto bytes cannot be parsed (invalid bool value)"],
                 v |-> FALSE]
           : d \in {ReadVarint(r)} })

\* A ReadInteger that keeps the low 32 bits of the varint, as a read into a
\* uint32_t would.
ReadIntegerNarrow(r) ==
    Only({ [r |-> d.r,
            v |-> [k \in 1..10 |-> IF k <= 4 THEN d.v[k]
                                   ELSE IF k = 5 THEN d.v[k] % 16 ELSE 0]]
           : d \in {ReadVarint(r)} })

\* Reader::ReadInteger: the uint64_t read is returned as int64_t, same bits.
ReadInteger(r) == ReadVarint(r)

\* What Reader::ReadString and Reader::ReadNestedMessage do when
\* pb_make_string_substream has failed, leaving m: the status is set and the
\* substream closed.  When the length could not be read, the close copies the
\* fields of an uninitialized substream into a stream that is never read
\* again: the stream is left as it is here.
SubstreamFailed(m) ==
    IF m.init
    THEN pb_close_string_substream([m.s EXCEPT !.status = PB_GET_ERROR(m.s)], m.sub)
    ELSE [m.s EXCEPT !.status = PB_GET_ERROR(m.s)]

\* Reader::ReadString.  pb_read of substream.bytes_left bytes from the
\* substream cannot fail, so the substream is always empty at the assertion.
ReadString(r) ==
    IF Halted(r) THEN [r |-> r, v |-> <<>>]
    ELSE Only({
        IF ~m.ok THEN [r |-> SubstreamFailed(m), v |-> <<>>]
        ELSE Only({ IF rd.s.bytes_left # 0 THEN [r |-> Abort(m.s), v |-> <<>>]
                    ELSE [r |-> pb_close_string_substream(m.s, rd.s), v |-> rd.bytes]
                    : rd \in {pb_read(m.sub, m.sub.bytes_left)} })
        : m \in {pb_make_string_substream(r)} })

\* Reader::ReadNanopbMessage(google_protobuf_Timestamp_fields, &proto)
ReadNanopbMessage(r, proto) ==
    IF Halted(r) THEN [r |-> r, v |-> proto]
    ELSE Only({ IF ~d.ok
                THEN [r |-> [d.s EXCEPT !.status = PB_GET_ERROR(d.s)], v |-> d.proto]
                ELSE [r |-> d.s, v |-> d.proto]
                : d \in {pb_decode_Timestamp(r, proto)} })

\* Reader::ReadNestedMessage, up to the call of read_message_fn: ok says that
\* read_message_fn is to run on the Reader sub; r is the parent meanwhile.
ReadNestedMessageOpen(r) ==
    IF Halted(r) THEN [ok |-> FALSE, r |-> r, sub |-> r]
    ELSE Only({
        IF ~m.ok THEN [ok |-> FALSE, r |-> SubstreamFailed(m), sub |-> m.sub]
        ELSE [ok |-> TRUE, r |-> m.s,
              sub |-> [m.sub EXCEPT !.status = "OK", !.aborted = FALSE]]
        : m \in {pb_make_string_substream(r)} })

\* Reader::ReadNestedMessage, from the return of read_message_fn, which left
\* the substream Reader as sub: the status is taken over, the substream must be
\* empty, and the parent continues where the substream stopped.
ReadNestedMessageClose(r, sub) ==
    IF sub.aborted THEN Abort(r)
    ELSE IF sub.bytes_left # 0 THEN Abort([r EXCEPT !.status = sub.status])
    ELSE pb_close_string_substream([r EXCEPT !.status = sub.status], sub)

\* DecodeTimestamp
DecodeTimestamp(r) ==
    Only({
        IF m.r.aborted THEN [r |-> m.r, v |-> Epoch]
        ELSE IF SLess(m.v.seconds, MinSeconds)
        THEN [r |-> set_status(m.r,
                  "Invalid message: timestamp beyond the earliest supported date"),
              v |-> Epoch]
        ELSE IF SLess(MaxSeconds, m.v.seconds)
        THEN [r |-> set_status(m.r,
                  "Invalid message: timestamp behond the latest supported date"),
              v |-> Epoch]
        ELSE IF m.v.nanos < 0 \/ m.v.nanos > MaxNanos
        THEN [r |-> set_status(m.r,
                  "Invalid message: timestamp nanos must be between 0 and 999999999"),
              v |-> Epoch]
        ELSE [r |-> m.r, v |-> [seconds |-> m.v.seconds, nanoseconds |-> m.v.nanos]]
        : m \in {ReadNanopbMessage(r, [seconds |-> Zero64, nanos |-> 0])} })

WireTypeMismatch ==
    "Input proto bytes cannot be parsed (mismatch between the wiretype and the field number (tag))"

RECURSIVE DecodeFieldValueImpl(_)
RECURSIVE DecodeFieldsEntry(_)
RECURSIVE DecodeObjectEntries(_, _)

\* DecodeObject: the MapValue submessage, read by the loop DecodeObjectEntries.
DecodeObject(r) ==
    IF Halted(r) THEN [r |-> r, v |-> EmptyMap]
    ELSE Only({
        IF ~o.ok THEN [r |-> o.r, v |-> EmptyMap]
        ELSE Only({ [r |-> ReadNestedMessageClose(o.r, body.r), v |-> body.v]
                    : body \in {DecodeObjectEntries(o.sub, EmptyMap)} })
        : o \in {ReadNestedMessageOpen(r)} })

\* The lambda of DecodeObject: `while (reader->bytes_left())`, one fields entry
\* per iteration, into result.
DecodeObjectEntries(r, result) ==
    IF Halted(r) \/ r.bytes_left = 0 THEN [r |-> r, v |-> result]
    ELSE Only({
        IF Halted(t.r) THEN [r |-> t.r, v |-> result]
        ELSE IF t.v.field_number # MapValue_fields_tag \/ t.v.wire_type # PB_WT_STRING
        THEN [r |-> Abort(t.r), v |-> result]
        ELSE Only({
            IF ~o.ok THEN [r |-> o.r, v |-> result]
            ELSE Only({
                Only({ IF Halted(after) THEN [r |-> after, v |-> result]
                       ELSE IF e.v.key \in DOMAIN result
                       THEN [r |-> Abort(after), v |-> result]
                       ELSE DecodeObjectEntries(after,
                                result @@ (e.v.key :> e.v.value))
                       : after \in {ReadNestedMessageClose(o.r, e.r)} })
                : e \in {DecodeFieldsEntry(o.sub)} })
            : o \in {ReadNestedMessageOpen(t.r)} })
        : t \in {ReadTag(r)} })

NoEntry == [key |-> <<>>, value |-> NullValue]

\* DecodeFieldsEntry, from the second ReadTag on: key is the key read, t the
\* tag of the value.
DecodeFieldsEntryValue(key, t) ==
    IF Halted(t.r) THEN [r |-> t.r, v |-> NoEntry]
    ELSE IF t.v.field_number # FieldsEntry_value_tag \/ t.v.wire_type # PB_WT_STRING
    THEN [r |-> Abort(t.r), v |-> NoEntry]
    ELSE Only({
        IF ~o.ok THEN [r |-> o.r, v |-> [key |-> key, value |-> NullValue]]
        ELSE Only({ [r |-> ReadNestedMessageClose(o.r, fv.r),
                     v |-> [key |-> key, value |-> fv.v]]
                    : fv \in {DecodeFieldValueImpl(o.sub)} })
        : o \in {ReadNestedMessageOpen(t.r)} })

\* DecodeFieldsEntry
DecodeFieldsEntry(r) ==
    Only({
        IF Halted(t1.r) THEN [r |-> t1.r, v |-> NoEntry]
        ELSE IF t1.v.field_number # FieldsEntry_key_tag \/ t1.v.wire_type # PB_WT_STRING
        THEN [r |-> Abort(t1.r), v |-> NoEntry]
        ELSE Only({ Only({ DecodeFieldsEntryValue(k.v, t2) : t2 \in {ReadTag(k.r)} })
                    : k \in {ReadString(t1.r)} })
        : t1 \in {ReadTag(r)} })

VarintFields ==
    {Value_null_value_tag, Value_boolean_value_tag, Value_integer_value_tag}

StringFields ==
    {Value_string_value_tag, Value_timestamp_value_tag, Value_map_value_tag}

\* DecodeFieldValueImpl, the first switch: the wire type must match the field
\* number; an unhandled field number fails FIREBASE_ASSERT_MESSAGE(false, ...)
\* before the status is set.
CheckTag(r, tag) ==
    IF tag.field_number \in VarintFields
    THEN IF tag.wire_type # PB_WT_VARINT THEN set_status(r, WireTypeMismatch) ELSE r
    ELSE IF tag.field_number \in StringFields
    THEN IF tag.wire_type # PB_WT_STRING THEN set_status(r, WireTypeMismatch) ELSE r
    ELSE Abort(r)

\* DecodeFieldValueImpl, the second switch: the payload of field_number is read
\* from c, the Reader after the tag.
DecodePayload(c, field_number) ==
    CASE field_number = Value_null_value_tag ->
           [r |-> ReadNull(c), v |-> NullValue]
      [] field_number = Value_boolean_value_tag ->
           Only({ [r |-> b.r, v |-> BooleanValue(b.v)] : b \in {ReadBool(c)} })
      [] field_number = Value_integer_value_tag ->
           Only({ [r |-> i.r, v |-> IntegerValue(i.v)] : i \in {ReadInteger(c)} })
      [] field_number = Value_string_value_tag ->
           Only({ [r |-> s.r, v |-> StringValue(s.v)] : s \in {ReadString(c)} })
      [] field_number = Value_timestamp_value_tag ->
           Only({ IF ~o.ok THEN [r |-> o.r, v |-> TimestampValue(Epoch)]
                  ELSE Only({ [r |-> ReadNestedMessageClose(o.r, ts.r),
                               v |-> TimestampValue(ts.v)]
                              : ts \in {DecodeTimestamp(o.sub)} })
                  : o \in {ReadNestedMessageOpen(c)} })
      [] field_number = Value_map_value_tag ->
           Only({ [r |-> m.r, v |-> ObjectValueFromMap(m.v)] : m \in {DecodeObject(c)} })
      [] OTHER -> [r |-> Abort(c), v |-> NullValue]

\* DecodeFieldValueImpl
DecodeFieldValueImpl(r) ==
    Only({
        IF Halted(t.r) THEN [r |-> t.r, v |-> NullValue]
        ELSE Only({ IF Halted(c) THEN [r |-> c, v |-> NullValue]
                    ELSE DecodePayload(c, t.v.field_number)
                    : c \in {CheckTag(t.r, t.v)} })
        : t \in {ReadTag(r)} })

\* Serializer::DecodeFieldValue: the value when the Reader's status is OK, the
\* status otherwise; "abort" when an assertion stopped the process.
DecodeFieldValue(bytes) ==
    Only({
        IF d.r.aborted
        THEN [outcome |-> "abort", status |-> d.r.status, value |-> NullValue,
              bytes_left |-> d.r.bytes_left]
        ELSE IF d.r.status = "OK"
        THEN [outcome |-> "value", status |-> "OK", value |-> d.v,
              bytes_left |-> d.r.bytes_left]
        ELSE [outcome |-> "error", status |-> d.r.status, value |-> NullValue,
              bytes_left |-> d.r.bytes_left]
        : d \in {DecodeFieldValueImpl(ReaderWrap(bytes))} })

-----------------------------------------------------------------------------
(* nanopb output streams and the Writer.  A Writer is its stream (sizing is *)
(* `callback == nullptr`, out the vector behind `state`, max_size,          *)
(* bytes_written), its status_ and `aborted`, as for the Reader.            *)

\* Writer::Wrap(out_bytes)
WriterWrap(bytes) ==
    [sizing |-> FALSE, out |-> bytes, max_size |-> kMaxDocumentSize,
     bytes_written |-> 0, status |-> "OK", aborted |-> FALSE]

\* Writer::Sizing(), a Writer over PB_OSTREAM_SIZING
WriterSizing ==
    [sizing |-> TRUE, out |-> <<>>, max_size |-> 0,
     bytes_written |-> 0, status |-> "OK", aborted |-> FALSE]

WriterHalted(w) == w.aborted \/ w.status # "OK"

\* FIREBASE_ASSERT_MESSAGE(false, ...) in a Writer
WriterAbort(w) == [w EXCEPT !.aborted = TRUE]

\* pb_write(stream, buf, count): a sizing stream only counts; a writing stream
\* refuses to go beyond max_size and appends otherwise.
pb_write(w, buf, count) ==
    IF ~w.sizing /\ w.bytes_written + count > w.max_size
    THEN [ok |-> FALSE, w |-> w]
    ELSE [ok |-> TRUE,
          w |-> [w EXCEPT !.bytes_written = w.bytes_written + count,
                          !.out = IF w.sizing THEN w.out ELSE w.out \o buf]]

\* The bytes of a varint: the groups up to the highest non-zero one, each but
\* the last with the continuation bit.
VarintBytes(v) ==
    LET n == IF \A k \in 1..10 : v[k] = 0 THEN 1
             ELSE CHOOSE k \in 1..10 : v[k] # 0 /\ \A j \in (k + 1)..10 : v[j] = 0
    IN  [k \in 1..n |-> IF k < n THEN v[k] + 128 ELSE v[k]]

pb_encode_varint(w, v) == pb_write(w, VarintBytes(v), Len(VarintBytes(v)))

\* A pb_encode_tag that leaves the wire type out of the tag.
pb_encode_tag_unshifted(w, wire_type, field_number) ==
    pb_encode_varint(w, ToU64(field_number * 8))

\* pb_encode_tag: (field_number << 3) | wire_type, as a varint
pb_encode_tag(w, wire_type, field_number) ==
    pb_encode_varint(w, ToU64(field_number * 8 + wire_type))

\* pb_encode_string: the length as a varint, then the bytes
pb_encode_string(w, s) ==
    Only({ IF ~l.ok THEN l ELSE pb_write(l.w, s, Len(s))
           : l \in {pb_encode_varint(w, ToU64(Len(s)))} })

\* One singular varint field of a proto3 message, as pb_encode writes it: a
\* field holding zero is not written.
pb_encode_field(w, field_number, v) ==
    IF v = Zero64 THEN [ok |-> TRUE, w |-> w]
    ELSE Only({ IF ~t.ok THEN t ELSE pb_encode_varint(t.w, v)
                : t \in {pb_encode_tag(w, PB_WT_VARINT, field_number)} })

\* pb_encode(stream, google_protobuf_Timestamp_fields, &proto)
pb_encode_Timestamp(w, proto) ==
    Only({ IF ~s.ok THEN s
           ELSE pb_encode_field(s.w, Timestamp_nanos_tag, ToU64(proto.nanos))
           : s \in {pb_encode_field(w, Timestamp_seconds_tag, proto.seconds)} })

\* What every Write* method does with the result e of its nanopb call:
\* `if (!pb_...) FIREBASE_ASSERT_MESSAGE(false, PB_GET_ERROR(&stream_))`.
Written(e) == IF ~e.ok THEN WriterAbort(e.w) ELSE e.w

\* Writer::WriteTag
WriteTag(w, wire_type, field_number) ==
    IF WriterHalted(w) THEN w
    ELSE Written(pb_encode_tag(w, wire_type, field_number))

\* Writer::WriteNanopbMessage(google_protobuf_Timestamp_fields, &proto)
WriteNanopbMessage(w, proto) ==
    IF WriterHalted(w) THEN w
    ELSE Written(pb_encode_Timestamp(w, proto))

\* Writer::WriteVarint
WriteVarint(w, v) ==
    IF WriterHalted(w) THEN w
    ELSE Written(pb_encode_varint(w, v))

\* Writer::WriteSize
WriteSize(w, size) == WriteVarint(w, ToU64(size))

\* Writer::WriteNull
WriteNull(w) == WriteVarint(w, ToU64(NullValue_NULL_VALUE))

\* Writer::WriteBool
WriteBool(w, bool_value) == WriteVarint(w, ToU64(IF bool_value THEN 1 ELSE 0))

\* Writer::WriteInteger: the int64_t is written as uint64_t, same bits.
WriteInteger(w, integer_value) == WriteVarint(w, integer_value)

\* Writer::WriteString
WriteString(w, string_value) ==
    IF WriterHalted(w) THEN w
    ELSE Written(pb_encode_string(w, string_value))

\* A second-pass Writer with room for one byte less than the first pass
\* counted.
SubWriterShort(w, size) ==
    [sizing |-> w.sizing, out |-> w.out, max_size |-> size - 1,
     bytes_written |-> 0, status |-> "OK", aborted |-> FALSE]

\* The Writer the second pass of WriteNestedMessage writes to: the parent's
\* callback and state, at most `size` bytes.
SubWriter(w, size) ==
    [sizing |-> w.sizing, out |-> w.out, max_size |-> size,
     bytes_written |-> 0, status |-> "OK", aborted |-> FALSE]

\* A WriteNestedMessage whose size-only branch counts the length prefix and
\* not the body.
WriteNestedMessageSizedNoBody(w1, size) ==
    IF WriterHalted(w1) THEN [run |-> FALSE, w |-> w1, sub |-> w1]
    ELSE IF w1.sizing THEN [run |-> FALSE, w |-> w1, sub |-> w1]
    ELSE IF w1.bytes_written + size > w1.max_size
    THEN [run |-> FALSE, w |-> WriterAbort(w1), sub |-> w1]
    ELSE [run |-> TRUE, w |-> w1, sub |-> SubWriter(w1, size)]

\* Writer::WriteNestedMessage once the size is written: w1 is the Writer after
\* WriteSize(size).  A sizing Writer only counts the size; a writing one must
\* have room and hands over to the second call of write_message_fn.
WriteNestedMessageSized(w1, size) ==
    IF WriterHalted(w1) THEN [run |-> FALSE, w |-> w1, sub |-> w1]
    ELSE IF w1.sizing
    THEN [run |-> FALSE, w |-> Written(pb_write(w1, <<>>, size)), sub |-> w1]
    ELSE IF w1.bytes_written + size > w1.max_size
    THEN [run |-> FALSE, w |-> WriterAbort(w1), sub |-> w1]
    ELSE [run |-> TRUE, w |-> w1, sub |-> SubWriter(w1, size)]

\* A WriteNestedMessage that writes one more than the size it counted.
WriteNestedMessageBeginOffByOne(w, sizer) ==
    IF WriterHalted(w) THEN [run |-> FALSE, w |-> w, sub |-> w]
    ELSE IF sizer.aborted THEN [run |-> FALSE, w |-> WriterAbort(w), sub |-> w]
    ELSE IF sizer.status # "OK"
    THEN [run |-> FALSE, w |-> [w EXCEPT !.status = sizer.status], sub |-> w]
    ELSE WriteNestedMessageSized(WriteSize(w, sizer.bytes_written + 1),
                                 sizer.bytes_written)

\* Writer::WriteNestedMessage, from its start to the second call of
\* write_message_fn.  sizer is the Writer::Sizing() that the first call of
\* write_message_fn has written to.  run says that write_message_fn is to run
\* a second time, on the Writer sub.
WriteNestedMessageBegin(w, sizer) ==
    IF WriterHalted(w) THEN [run |-> FALSE, w |-> w, sub |-> w]
    ELSE IF sizer.aborted THEN [run |-> FALSE, w |-> WriterAbort(w), sub |-> w]
    ELSE IF sizer.status # "OK"
    THEN [run |-> FALSE, w |-> [w EXCEPT !.status = sizer.status], sub |-> w]
    ELSE WriteNestedMessageSized(WriteSize(w, sizer.bytes_written),
                                 sizer.bytes_written)

\* Writer::WriteNestedMessage, from the return of the second call of
\* write_message_fn, which left the Writer sub: the parent takes over its
\* status and its count, and the count must be the size of the first pass.
WriteNestedMessageEnd(w, sub) ==
    IF sub.aborted THEN WriterAbort([w EXCEPT !.out = sub.out])
    ELSE IF sub.status # "OK"
    THEN [w EXCEPT !.out = sub.out, !.status = sub.status]
    ELSE IF sub.bytes_written # sub.max_size
    THEN WriterAbort([w EXCEPT !.out = sub.out,
                               !.bytes_written = w.bytes_written + sub.bytes_written])
    ELSE [w EXCEPT !.out = sub.out,
                   !.bytes_written = w.bytes_written + sub.bytes_written]

\* EncodeTimestamp
EncodeTimestamp(w, timestamp_value) ==
    WriteNanopbMessage(w, [seconds |-> timestamp_value.seconds,
                           nanos |-> timestamp_value.nanoseconds])

RECURSIVE EncodeFieldValueImpl(_, _)
RECURSIVE EncodeFieldsEntry(_, _, _)
RECURSIVE EncodeObjectEntries(_, _, _)

\* WriteNestedMessage with the lambda that calls EncodeTimestamp
WriteNestedTimestamp(w, timestamp_value) ==
    Only({ IF b.run
           THEN WriteNestedMessageEnd(b.w, EncodeTimestamp(b.sub, timestamp_value))
           ELSE b.w
           : b \in {WriteNestedMessageBegin(w,
                        EncodeTimestamp(WriterSizing, timestamp_value))} })

\* WriteNestedMessage with the lambda that calls EncodeFieldValueImpl
WriteNestedFieldValue(w, field_value) ==
    Only({ IF b.run
           THEN WriteNestedMessageEnd(b.w, EncodeFieldValueImpl(b.sub, field_value))
           ELSE b.w
           : b \in {WriteNestedMessageBegin(w,
                        EncodeFieldValueImpl(WriterSizing, field_value))} })

\* WriteNestedMessage with the lambda that calls EncodeFieldsEntry
WriteNestedFieldsEntry(w, key, field_value) ==
    Only({ IF b.run
           THEN WriteNestedMessageEnd(b.w, EncodeFieldsEntry(b.sub, key, field_value))
           ELSE b.w
           : b \in {WriteNestedMessageBegin(w,
                        EncodeFieldsEntry(WriterSizing, key, field_value))} })

\* An EncodeFieldsEntry that writes the value after its tag without the
\* length in front of it.
EncodeFieldsEntryFlat(w, key, field_value) ==
    EncodeFieldValueImpl(
        WriteTag(WriteString(WriteTag(w, PB_WT_STRING, FieldsEntry_key_tag), key),
                 PB_WT_STRING, FieldsEntry_value_tag),
        field_value)

\* EncodeFieldsEntry
EncodeFieldsEntry(w, key, field_value) ==
    WriteNestedFieldValue(
        WriteTag(WriteString(WriteTag(w, PB_WT_STRING, FieldsEntry_key_tag), key),
                 PB_WT_STRING, FieldsEntry_value_tag),
        field_value)

\* The lambda of EncodeObject: one tag and one nested FieldsEntry per entry,
\* in the order of the map; keys are the keys still to write.
EncodeObjectEntries(w, object_value, keys) ==
    IF keys = <<>> THEN w
    ELSE EncodeObjectEntries(
             WriteNestedFieldsEntry(WriteTag(w, PB_WT_STRING, FieldsEntry_key_tag),
                                    Head(keys), object_value[Head(keys)]),
             object_value, Tail(keys))

\* WriteNestedMessage with the lambda of EncodeObject
WriteNestedObjectEntries(w, object_value, keys) ==
    Only({ IF b.run
           THEN WriteNestedMessageEnd(b.w,
                    EncodeObjectEntries(b.sub, object_value, keys))
           ELSE b.w
           : b \in {WriteNestedMessageBegin(w,
                        EncodeObjectEntries(WriterSizing, object_value, keys))} })

\* EncodeObject
EncodeObject(w, object_value) ==
    WriteNestedObjectEntries(w, object_value, SortedKeys(DOMAIN object_value))

\* EncodeFieldValueImpl
EncodeFieldValueImpl(w, field_value) ==
    CASE field_value.type = "Null" ->
           WriteNull(WriteTag(w, PB_WT_VARINT, Value_null_value_tag))
      [] field_value.type = "Boolean" ->
           WriteBool(WriteTag(w, PB_WT_VARINT, Value_boolean_value_tag),
                     field_value.boolean_value)
      [] field_value.type = "Integer" ->
           WriteInteger(WriteTag(w, PB_WT_VARINT, Value_integer_value_tag),
                        field_value.integer_value)
      [] field_value.type = "String" ->
           WriteString(WriteTag(w, PB_WT_STRING, Value_string_value_tag),
                       field_value.string_value)
      [] field_value.type = "Timestamp" ->
           WriteNestedTimestamp(WriteTag(w, PB_WT_STRING, Value_timestamp_value_tag),
                                field_value.timestamp_value)
      [] field_value.type = "Object" ->
           EncodeObject(WriteTag(w, PB_WT_STRING, Value_map_value_tag),
                        field_value.object_value)
      [] OTHER -> WriterAbort(w)

\* Serializer::EncodeFieldValue: the vector afterwards and the status returned;
\* "abort" when the process was stopped instead.
EncodeFieldValue(field_value, bytes) ==
    Only({ [out_bytes |-> w.out,
            status |-> IF w.aborted THEN "abort" ELSE w.status,
            bytes_written |-> w.bytes_written]
           : w \in {EncodeFieldValueImpl(WriterWrap(bytes), field_value)} })

-----------------------------------------------------------------------------
(* The key codec.  A string is a sequence of pieces: "/" or a piece of text *)
(* without a slash.  A ResourcePath is a sequence of segments, each a       *)
(* string without "/".  ResourcePath and DocumentKey are not part of this   *)
(* file; they are modelled as the specification describes them.            *)

Str(piece) == <<piece>>

\* ResourcePath::CanonicalString: the segments joined by "/".
RECURSIVE CanonicalString(_)
CanonicalString(path) ==
    IF path = <<>> THEN <<>>
    ELSE IF Len(path) = 1 THEN path[1]
    ELSE path[1] \o <<"/">> \o CanonicalString(Tail(path))

\* The segments of a string read up to position i: done holds the segments
\* closed by a "/", cur the pieces since the last one.
RECURSIVE SplitFrom(_, _, _, _)
SplitFrom(s, i, done, cur) ==
    IF i > Len(s) THEN (IF cur = <<>> THEN done ELSE Append(done, cur))
    ELSE IF s[i] = "/"
    THEN SplitFrom(s, i + 1, IF cur = <<>> THEN done ELSE Append(done, cur), <<>>)
    ELSE SplitFrom(s, i + 1, done, Append(cur, s[i]))

\* ResourcePath::FromString: the non-empty segments between the slashes.
FromString(s) == SplitFrom(s, 1, <<>>, <<>>)

\* ResourcePath::PopFirst(count): the path without its first count segments.
PopFirst(path, count) == SubSeq(path, count + 1, Len(path))

\* DocumentKey{path}: a key wraps its path.
DocumentKey(path) == path

\* EncodeDatabaseId
EncodeDatabaseId(db) ==
    <<Str("projects"), db.project_id, Str("databases"), db.database_id>>

\* EncodeResourceName
EncodeResourceName(db, path) ==
    CanonicalString(Append(EncodeDatabaseId(db), Str("documents")) \o path)

\* IsValidResourceName; path[0] and path[2] of the code are path[1] and
\* path[3] here.
IsValidResourceName(path) ==
    Len(path) >= 4 /\ path[1] = Str("projects") /\ path[3] = Str("databases")

\* DecodeResourceName; ok is FALSE when the FIREBASE_ASSERT_MESSAGE fails.
DecodeResourceName(encoded) ==
    [ok |-> IsValidResourceName(FromString(encoded)), resource |-> FromString(encoded)]

\* An ExtractLocalPathFromResourceName that leaves the "documents" segment in
\* the local path.
ExtractLocalPathKeepingDocuments(resource_name) ==
    [ok |-> Len(resource_name) > 4 /\ resource_name[5] = Str("documents"),
     path |-> PopFirst(resource_name, 4)]

\* ExtractLocalPathFromResourceName; ok is FALSE when the assertion fails.
ExtractLocalPathFromResourceName(resource_name) ==
    [ok |-> Len(resource_name) > 4 /\ resource_name[5] = Str("documents"),
     path |-> PopFirst(resource_name, 5)]

\* Serializer::EncodeKey of the Serializer constructed with db
EncodeKey(db, k) == EncodeResourceName(db, k)

NoKey == [outcome |-> "none", key |-> <<>>]

KeyAbort == [outcome |-> "abort", key |-> <<>>]

\* A DecodeKey that does not compare the database.
DecodeKeyOfAnyDatabase(db, encoded) ==
    Only({ IF ~r.ok THEN KeyAbort
           ELSE IF r.resource[2] # db.project_id THEN KeyAbort
           ELSE IF ~ExtractLocalPathFromResourceName(r.resource).ok THEN KeyAbort
           ELSE [outcome |-> "key",
                 key |-> DocumentKey(ExtractLocalPathFromResourceName(r.resource).path)]
           : r \in {DecodeResourceName(encoded)} })

\* Serializer::DecodeKey of the Serializer constructed with db: the key, or
\* "abort" when one of the assertions fails.
DecodeKey(db, encoded) ==
    Only({ IF ~r.ok THEN KeyAbort
           ELSE IF r.resource[2] # db.project_id THEN KeyAbort
           ELSE IF r.resource[4] # db.database_id THEN KeyAbort
           ELSE IF ~ExtractLocalPathFromResourceName(r.resource).ok THEN KeyAbort
           ELSE [outcome |-> "key",
                 key |-> DocumentKey(ExtractLocalPathFromResourceName(r.resource).path)]
           : r \in {DecodeResourceName(encoded)} })

-----------------------------------------------------------------------------
(* The callers of the Serializer: one builds a FieldValue and encodes it;   *)
(* the bytes reach DecodeFieldValue as they are, with one byte changed or   *)
(* with bytes appended; or DecodeFieldValue is handed bytes that no encoder *)
(* produced.                                                                *)

Hi == <<104, 105>>

\* The n-th key: "a", "b", ...
Key(n) == <<96 + n>>

Timestamps ==
    {[seconds |-> ToU64(1), nanoseconds |-> 2],
     [seconds |-> ToU64(0), nanoseconds |-> 0],
     [seconds |-> MaxSeconds, nanoseconds |-> MaxNanos],
     [seconds |-> MinSeconds, nanoseconds |-> 0]}

\* The values without entries that the caller starts from.
Leafs ==
    {NullValue, BooleanValue(TRUE), BooleanValue(FALSE),
     IntegerValue(ToU64(42)), IntegerValue(ToU64(-1)), IntegerValue(ToU64(300)),
     StringValue(<<>>), StringValue(Hi),
     ObjectValueFromMap(EmptyMap), DoubleValue}
    \cup {TimestampValue(ts) : ts \in Timestamps}

\* The values of the entries added beside the first one.
SiblingLeafs == {BooleanValue(TRUE), StringValue(Hi)}

\* The variants EncodeFieldValueImpl implements.
RECURSIVE Supported(_)
Supported(v) ==
    /\ v.type \in {"Null", "Boolean", "Integer", "String", "Timestamp", "Object"}
    /\ \A k \in DOMAIN v.object_value : Supported(v.object_value[k])

RECURSIVE Depth(_)
Depth(v) ==
    IF v.type # "Object" THEN 0
    ELSE LET ds == {Depth(v.object_value[k]) : k \in DOMAIN v.object_value}
         IN  1 + (IF ds = {} THEN 0 ELSE CHOOSE d \in ds : \A e \in ds : e <= d)

\* The bytes a changed byte becomes: one bit flipped, or one more or less.
Replacements(b) ==
    {(b + 1) % 256, (b + 255) % 256}
    \cup {IF (b \div m) % 2 = 1 THEN b - m ELSE b + m : m \in {1, 2, 4, 8, 16, 32, 64, 128}}

\* What is appended to an encoding.
Trailers == {<<0>>, <<8, 1>>}

\* The bytes of the byte strings received that no encoder produced.
RawBytes == {0, 1, 2, 8, 10, 82, 88, 128, 255}

RawInputs == UNION {[1..n -> RawBytes] : n \in 0..MaxRawLen}

\* Timestamps outside the range DecodeTimestamp accepts: one second before
\* TimestampInternal::Min(), one second after TimestampInternal::Max(), the
\* extremes of int64_t, and nanos of 1000000000, -1 and the extremes of int32_t.
OutOfRangeTimestamps ==
    {[seconds |-> <<127, 17, 56, 67, 24, 126, 127, 127, 127, 1>>, nanoseconds |-> 0],
     [seconds |-> <<0, 3, 81, 127, 47, 7, 0, 0, 0, 0>>, nanoseconds |-> 0],
     [seconds |-> <<0, 0, 0, 0, 0, 0, 0, 0, 0, 1>>, nanoseconds |-> 2],
     [seconds |-> <<127, 127, 127, 127, 127, 127, 127, 127, 127, 0>>, nanoseconds |-> 2],
     [seconds |-> ToU64(1), nanoseconds |-> MaxNanos + 1],
     [seconds |-> ToU64(1), nanoseconds |-> -1],
     [seconds |-> ToU64(0), nanoseconds |-> 2147483647],
     [seconds |-> MaxSeconds, nanoseconds |-> -2147483647 - 1]}

\* The encodings of those timestamps by a peer that writes the same wire
\* format; EncodeTimestamp does not look at the range.
ForeignInputs ==
    {EncodeFieldValue(TimestampValue(ts), <<>>).out_bytes : ts \in OutOfRangeTimestamps}

\* The encoding of the object {"a": v}, given the encoding of v (shorter than
\* 121 bytes, so that every length is one byte).
InMapEntry(bytes) ==
    <<50, Len(bytes) + 7, 10, Len(bytes) + 5, 10, 1, 97, 18, Len(bytes)>> \o bytes

\* A timestamp_value of one byte more, the tag of nanos with no value after
\* it.
CutShort(bytes) ==
    [bytes EXCEPT ![2] = @ + 1] \o <<Timestamp_nanos_tag * 8 + PB_WT_VARINT>>

\* The byte strings DecodeFieldValue is handed that no Encode of this model
\* produced.
ReceivedInputs ==
    RawInputs \cup ForeignInputs
    \cup {InMapEntry(bytes) : bytes \in RawInputs \cup ForeignInputs}
    \cup {CutShort(bytes) : bytes \in ForeignInputs}

\* The DatabaseIds a Serializer is constructed with: non-empty strings
\* without a slash.
DatabaseIds ==
    [project_id : {Str("p"), Str("q")}, database_id : {Str("d"), Str("p")}]

NoDatabaseId == [project_id |-> <<>>, database_id |-> <<>>]

\* The segments of the document keys and of the names that are changed.
Segments ==
    {Str("x"), <<"x", "y">>, Str("documents"), Str("projects"), Str("databases"),
     Str("p"), Str("q"), Str("d")}

KeySegments == {Str("x"), <<"x", "y">>, Str("documents"), Str("projects")}

\* The paths of the document keys.
KeyPaths == UNION {[1..n -> KeySegments] : n \in 0..MaxSegments}

NotDecoded ==
    [outcome |-> "none", status |-> "OK", value |-> NullValue, bytes_left |-> 0]

How(kind, pos) == [kind |-> kind, pos |-> pos]

Init ==
    /\ pc = "idle"
    /\ value = NullValue
    /\ out_bytes = <<>>
    /\ enc_status = "none"
    /\ input = <<>>
    /\ how = How("none", 0)
    /\ decoded = NotDecoded
    /\ kpc = "idle"
    /\ database_id = NoDatabaseId
    /\ document_key = <<>>
    /\ name = <<>>
    /\ decoded_key = NoKey

\* The caller makes a FieldValue without entries.
Construct(leaf) ==
    /\ pc = "idle"
    /\ pc' = "build"
    /\ value' = leaf
    /\ UNCHANGED <<out_bytes, enc_status, input, how, decoded, kvars>>

\* The caller makes the object {"a": value}.
WrapInObject ==
    /\ pc = "build"
    /\ Depth(value) < MaxDepth
    /\ value' = ObjectValueFromMap(Key(1) :> value)
    /\ UNCHANGED <<pc, out_bytes, enc_status, input, how, decoded, kvars>>

\* The caller adds an entry under the next key to the object.
AddEntry(leaf) ==
    /\ pc = "build"
    /\ value.type = "Object"
    /\ LET n == Cardinality(DOMAIN value.object_value) IN
       /\ 1 <= n
       /\ n < MaxEntries
       /\ value' = ObjectValueFromMap(value.object_value @@ (Key(n + 1) :> leaf))
    /\ UNCHANGED <<pc, out_bytes, enc_status, input, how, decoded, kvars>>

\* Serializer::EncodeFieldValue(value, &out_bytes) on an empty vector.
Encode ==
    /\ pc = "build"
    /\ LET e == EncodeFieldValue(value, <<>>) IN
       /\ out_bytes' = e.out_bytes
       /\ enc_status' = e.status
       /\ pc' = IF e.status = "abort" THEN "aborted" ELSE "encoded"
    /\ UNCHANGED <<value, input, how, decoded, kvars>>

\* The encoding reaches the decoder as it is.
DeliverExact ==
    /\ pc = "encoded"
    /\ pc' = "ready"
    /\ input' = out_bytes
    /\ how' = How("exact", 0)
    /\ UNCHANGED <<value, out_bytes, enc_status, decoded, kvars>>

\* The encoding reaches the decoder with the byte at pos changed to b.
DeliverCorrupt(pos, b) ==
    /\ pc = "encoded"
    /\ pos \in 1..Len(out_bytes)
    /\ b \in Replacements(out_bytes[pos])
    /\ pc' = "ready"
    /\ input' = [out_bytes EXCEPT ![pos] = b]
    /\ how' = How("corrupt", pos)
    /\ UNCHANGED <<value, out_bytes, enc_status, decoded, kvars>>

\* The encoding reaches the decoder with bytes after it.
DeliverAppended(extra) ==
    /\ pc = "encoded"
    /\ pc' = "ready"
    /\ input' = out_bytes \o extra
    /\ how' = How("appended", 0)
    /\ UNCHANGED <<value, out_bytes, enc_status, decoded, kvars>>

\* The decoder is handed bytes that no encoder produced.
Receive(bytes) ==
    /\ pc = "idle"
    /\ pc' = "ready"
    /\ input' = bytes
    /\ how' = How("raw", 0)
    /\ UNCHANGED <<value, out_bytes, enc_status, decoded, kvars>>

\* Serializer::DecodeFieldValue(input)
Decode ==
    /\ pc = "ready"
    /\ decoded' = DecodeFieldValue(input)
    /\ pc' = IF decoded'.outcome = "abort" THEN "aborted" ELSE "decoded"
    /\ UNCHANGED <<value, out_bytes, enc_status, input, how, kvars>>

Next ==
    \/ \E leaf \in Leafs : Construct(leaf)
    \/ WrapInObject
    \/ \E leaf \in SiblingLeafs : AddEntry(leaf)
    \/ Encode
    \/ DeliverExact
    \/ \E pos \in 1..Len(out_bytes) : \E b \in 0..255 : DeliverCorrupt(pos, b)
    \/ \E extra \in Trailers : DeliverAppended(extra)
    \/ \E bytes \in ReceivedInputs : Receive(bytes)
    \/ Decode

Spec == Init /\ [][Next]_vars

\* The runs in which the decoder gets exactly what the encoder wrote.
NextExact ==
    \/ \E leaf \in Leafs : Construct(leaf)
    \/ WrapInObject
    \/ \E leaf \in SiblingLeafs : AddEntry(leaf)
    \/ Encode
    \/ DeliverExact
    \/ Decode

SpecExact == Init /\ [][NextExact]_vars

\* The runs in which the decoder gets bytes from elsewhere.
NextReceive ==
    \/ \E bytes \in ReceivedInputs : Receive(bytes)
    \/ Decode

SpecReceive == Init /\ [][NextReceive]_vars

\* A Serializer is constructed with a DatabaseId.
ConstructSerializer(db) ==
    /\ kpc = "idle"
    /\ kpc' = "made"
    /\ database_id' = db
    /\ UNCHANGED <<pc, value, out_bytes, enc_status, input, how, decoded,
                   document_key, name, decoded_key>>

\* Serializer::EncodeKey(k)
CallEncodeKey(k) ==
    /\ kpc = "made"
    /\ kpc' = "named"
    /\ document_key' = k
    /\ name' = EncodeKey(database_id, k)
    /\ UNCHANGED <<pc, value, out_bytes, enc_status, input, how, decoded,
                   database_id, decoded_key>>

\* The name is instead the one a Serializer of another DatabaseId returns.
NameOfOtherDatabase(db) ==
    /\ kpc = "named"
    /\ db # database_id
    /\ kpc' = "changed"
    /\ name' = EncodeKey(db, document_key)
    /\ UNCHANGED <<pc, value, out_bytes, enc_status, input, how, decoded,
                   database_id, document_key, decoded_key>>

\* One segment of the name becomes another.
ChangeSegment(i, s) ==
    /\ kpc = "named"
    /\ i \in 1..Len(FromString(name))
    /\ FromString(name)[i] # s
    /\ kpc' = "changed"
    /\ name' = CanonicalString([FromString(name) EXCEPT ![i] = s])
    /\ UNCHANGED <<pc, value, out_bytes, enc_status, input, how, decoded,
                   database_id, document_key, decoded_key>>

\* The name loses its last segments and keeps n.
Truncate(n) ==
    /\ kpc = "named"
    /\ n < Len(FromString(name))
    /\ kpc' = "changed"
    /\ name' = CanonicalString(SubSeq(FromString(name), 1, n))
    /\ UNCHANGED <<pc, value, out_bytes, enc_status, input, how, decoded,
                   database_id, document_key, decoded_key>>

\* The name gets a slash in front.
LeadingSlash ==
    /\ kpc = "named"
    /\ kpc' = "slashed"
    /\ name' = <<"/">> \o name
    /\ UNCHANGED <<pc, value, out_bytes, enc_status, input, how, decoded,
                   database_id, document_key, decoded_key>>

\* Serializer::DecodeKey(name)
CallDecodeKey ==
    /\ kpc \in {"named", "changed", "slashed"}
    /\ decoded_key' = DecodeKey(database_id, name)
    /\ kpc' = IF kpc = "named" THEN "decoded" ELSE "decoded changed"
    /\ UNCHANGED <<pc, value, out_bytes, enc_status, input, how, decoded,
                   database_id, document_key, name>>

NextKey ==
    \/ \E db \in DatabaseIds : ConstructSerializer(db)
    \/ \E k \in KeyPaths : CallEncodeKey(k)
    \/ \E db \in DatabaseIds : NameOfOtherDatabase(db)
    \/ \E i \in 1..(5 + MaxSegments) : \E s \in Segments : ChangeSegment(i, s)
    \/ \E n \in 0..(4 + MaxSegments) : Truncate(n)
    \/ LeadingSlash
    \/ CallDecodeKey

SpecKey == Init /\ [][NextKey]_vars

-----------------------------------------------------------------------------
(* The properties.                                                          *)

\* Every Status the Reader sets has the code FirestoreErrorCode::DataLoss;
\* these are the messages of the ones set for a value outside its domain.
DomainErrors ==
    {"Input proto bytes cannot be parsed (invalid null value)",
     "Input proto bytes cannot be parsed (invalid bool value)",
     "Invalid message: timestamp beyond the earliest supported date",
     "Invalid message: timestamp behond the latest supported date",
     "Invalid message: timestamp nanos must be between 0 and 999999999"}

\* DecodeFieldValue has been called on input.
DecodeCalled == decoded.outcome # "none"

\* C1: for every value of the supported variants, EncodeFieldValue into an
\* empty vector returns OK, and DecodeFieldValue of exactly the bytes written
\* returns OK with a value equal to the one encoded.
C1_RoundTrip ==
    /\ (enc_status # "none" /\ Supported(value)) => enc_status = "OK"
    /\ (how.kind = "exact" /\ DecodeCalled /\ Supported(value)) =>
           /\ decoded.outcome = "value"
           /\ decoded.status = "OK"
           /\ decoded.value = value

\* The object {"a": -1, "b": "hi"} has come back from its own encoding.
C1_Witness ==
    /\ how.kind = "exact"
    /\ pc = "decoded"
    /\ value = ObjectValueFromMap((Key(1) :> IntegerValue(ToU64(-1)))
                                  @@ (Key(2) :> StringValue(Hi)))
    /\ decoded.value = value

ATrue == ObjectValueFromMap(Key(1) :> BooleanValue(TRUE))

\* C2, as the code has it: EncodeFieldValue of the object {a: true} into an
\* empty vector writes 32 09 0A 07 0A 01 61 12 02 08 01: the MapValue is 9
\* bytes long and its one fields entry 7.
C2_ATrueBytes ==
    (enc_status # "none" /\ value = ATrue) =>
        /\ enc_status = "OK"
        /\ out_bytes = <<50, 9, 10, 7, 10, 1, 97, 18, 2, 8, 1>>

\* The object {a: true} has been encoded.
C2_Witness == pc = "encoded" /\ value = ATrue /\ Len(out_bytes) = 11

\* C2, as stated: EncodeFieldValue of the object {a: true} writes
\* 32 08 0A 06 0A 01 61 12 02 08 01.
C2_AsStated ==
    (enc_status # "none" /\ value = ATrue) =>
        out_bytes = <<50, 8, 10, 6, 10, 1, 97, 18, 2, 8, 1>>

\* C3: when bytes are left unread after the one top-level field,
\* DecodeFieldValue returns a non-OK status and no value.
C3_OneTopLevelValue ==
    (DecodeCalled /\ decoded.bytes_left # 0) => decoded.outcome # "value"

\* C4: DecodeFieldValue of a valid encoding with one byte changed returns the
\* value that was encoded or a DATA_LOSS status; it neither stops on an
\* assertion nor returns another value.
C4_CorruptionRejected ==
    (how.kind = "corrupt" /\ DecodeCalled /\ Supported(value)) =>
        \/ decoded.outcome = "error"
        \/ decoded.outcome = "value" /\ decoded.value = value

\* The declared length byte of the encodings of "hi" (8A 01 02 ...), of
\* Timestamp(1, 2) (52 04 ...) and of {a: true} (32 09 ...) has been changed.
LengthByteChanged ==
    /\ how.kind = "corrupt"
    /\ \/ value = StringValue(Hi) /\ how.pos = 3
       \/ value = TimestampValue([seconds |-> ToU64(1), nanoseconds |-> 2])
          /\ how.pos = 2
       \/ value = ATrue /\ how.pos = 2

\* C5: with the declared length byte of those three encodings changed,
\* DecodeFieldValue returns DATA_LOSS and never an OK value.
C5_LengthByteChecked ==
    (LengthByteChanged /\ DecodeCalled) => decoded.outcome = "error"

\* The input is the encoding of an object of two entries in which the one key
\* byte has been changed into the other, so that both entries have one key.
DuplicateKeyInput ==
    /\ how.kind = "corrupt"
    /\ value.type = "Object"
    /\ DOMAIN value.object_value = {Key(1), Key(2)}
    /\ \/ how.pos = 7 /\ input[7] = Key(2)[1]
       \/ how.pos = out_bytes[4] + 9 /\ input[how.pos] = Key(1)[1]

\* C6: DecodeFieldValue of a MapValue with two entries of the same key returns
\* a DATA_LOSS status.
C6_DuplicateKeyIsDataLoss ==
    (DuplicateKeyInput /\ DecodeCalled) => decoded.outcome = "error"

\* The byte is a whole tag with a wire type of the protobuf encoding and a
\* field number other than the six of EncodeFieldValueImpl.
UnknownFieldTag(b) ==
    /\ b < 128
    /\ b % 8 \in {0, 1, 2, 5}
    /\ b \div 8 \notin {0, Value_boolean_value_tag, Value_integer_value_tag,
                        Value_map_value_tag, Value_timestamp_value_tag,
                        Value_null_value_tag, Value_string_value_tag}

\* C7: when the tag read has a field number that is none of 1, 2, 6, 10, 11,
\* 17, DecodeFieldValue returns a DATA_LOSS status and no value.
C7_UnknownFieldIsDataLoss ==
    (DecodeCalled /\ input # <<>> /\ UnknownFieldTag(input[1])) =>
        decoded.outcome = "error"

\* The tag of one or two bytes that starts at position p of bytes: its
\* number, and how many bytes it takes; number -1 when there is none.
TagAt(bytes, p) ==
    IF p > Len(bytes) THEN [n |-> -1, len |-> 0]
    ELSE IF bytes[p] < 128 THEN [n |-> bytes[p], len |-> 1]
    ELSE IF p + 1 <= Len(bytes) /\ bytes[p + 1] < 128
    THEN [n |-> bytes[p] - 128 + 128 * bytes[p + 1], len |-> 2]
    ELSE [n |-> -1, len |-> 0]

\* A supported field number with the wire type of the other kind.
MismatchedTag(n) ==
    \/ n % 8 = PB_WT_STRING
       /\ n \div 8 \in {Value_boolean_value_tag, Value_integer_value_tag,
                        Value_null_value_tag}
    \/ n % 8 = PB_WT_VARINT
       /\ n \div 8 \in {Value_map_value_tag, Value_timestamp_value_tag,
                        Value_string_value_tag}

\* The top-level tag has a supported field number and the wrong wire type.
MismatchAtTopLevel == MismatchedTag(TagAt(input, 1).n)

\* The input is the encoding of an object {"a": v} in which the first byte of
\* the tag of v has been changed, and the tag now has a supported field
\* number and the wrong wire type.
MismatchInMapEntry ==
    /\ how.kind = "corrupt"
    /\ value.type = "Object"
    /\ DOMAIN value.object_value = {Key(1)}
    /\ how.pos = 10
    /\ MismatchedTag(TagAt(input, 10).n)

\* C8, for the top-level value: a supported field number with the wrong wire
\* type makes DecodeFieldValue return DATA_LOSS with nothing read after the
\* tag.
C8_TopLevelMismatchIsDataLoss ==
    (DecodeCalled /\ MismatchAtTopLevel) =>
        /\ decoded.outcome = "error"
        /\ decoded.status = WireTypeMismatch
        /\ decoded.bytes_left = Len(input) - TagAt(input, 1).len

\* C8: a supported field number with the wrong wire type makes DecodeFieldValue
\* return DATA_LOSS, for the top-level value and for a value in a map entry.
C8_WireTypeMismatchIsDataLoss ==
    (DecodeCalled /\ (MismatchAtTopLevel \/ MismatchInMapEntry)) =>
        decoded.outcome = "error"

\* C9: EncodeFieldValue returns OK for every supported value, and whatever the
\* value, the Writer's status is never anything but OK: a failure stops the
\* process on an assertion.
C9_EncodeNeverFails ==
    enc_status # "none" =>
        /\ enc_status \in {"OK", "abort"}
        /\ Supported(value) => enc_status = "OK"

\* An object holding a timestamp, two nested messages deep, has been encoded.
C9_Witness ==
    /\ pc = "encoded"
    /\ enc_status = "OK"
    /\ value.type = "Object"
    /\ DOMAIN value.object_value = {Key(1), Key(2)}
    /\ value.object_value[Key(1)].type = "Timestamp"

\* The bytes are one whole varint.
IsVarint(s) ==
    /\ Len(s) \in 1..10
    /\ s[Len(s)] < 128
    /\ \A i \in 1..(Len(s) - 1) : s[i] >= 128

\* The 64 bits of the varint s.
VarintValue(s) ==
    [k \in 1..10 |-> IF k > Len(s) THEN 0
                     ELSE IF k = 10 THEN s[k] % 2 ELSE s[k] % 128]

\* The bytes are a correctly tagged, whole payload outside its variant's
\* domain: a null_value varint other than 0, a boolean_value varint other than
\* 0 and 1, or a timestamp_value out of range.
OutOfDomain(bytes) ==
    \/ /\ Len(bytes) >= 2
       /\ bytes[1] = Value_null_value_tag * 8 + PB_WT_VARINT
       /\ IsVarint(Tail(bytes))
       /\ VarintValue(Tail(bytes)) # ToU64(NullValue_NULL_VALUE)
    \/ /\ Len(bytes) >= 2
       /\ bytes[1] = Value_boolean_value_tag * 8 + PB_WT_VARINT
       /\ IsVarint(Tail(bytes))
       /\ VarintValue(Tail(bytes)) \notin {ToU64(0), ToU64(1)}
    \/ bytes \in ForeignInputs

\* What is in the one entry of the input, for an input made by InMapEntry.
Unframed(bytes) ==
    IF Len(bytes) >= 9 /\ bytes = InMapEntry(SubSeq(bytes, 10, Len(bytes)))
    THEN SubSeq(bytes, 10, Len(bytes))
    ELSE bytes

\* C10: DecodeFieldValue of a correctly tagged, whole payload outside its
\* variant's domain (null other than 0, boolean other than 0 and 1, timestamp
\* seconds or nanos out of range), at the top level or as the value of a map
\* entry, returns DATA_LOSS with the message of that check, and no value.
C10_OutOfDomainIsDataLoss ==
    (how.kind = "raw" /\ DecodeCalled /\ OutOfDomain(Unframed(input))) =>
        /\ decoded.outcome = "error"
        /\ decoded.status \in DomainErrors

\* A timestamp with nanos out of range, in a map entry, has been refused.
C10_Witness ==
    /\ how.kind = "raw"
    /\ pc = "decoded"
    /\ Len(input) >= 9
    /\ Unframed(input) \in ForeignInputs
    /\ decoded.outcome = "error"
    /\ decoded.status = "Invalid message: timestamp nanos must be between 0 and 999999999"

\* The bytes EncodeFieldValue is to write for five values without entries.
ExpectedBytes(v) ==
    IF v = NullValue THEN <<88, 0>>
    ELSE IF v = BooleanValue(TRUE) THEN <<8, 1>>
    ELSE IF v = IntegerValue(ToU64(42)) THEN <<16, 42>>
    ELSE IF v = StringValue(Hi) THEN <<138, 1, 2, 104, 105>>
    ELSE <<82, 4, 8, 1, 16, 2>>

ExpectedBytesOf ==
    {NullValue, BooleanValue(TRUE), IntegerValue(ToU64(42)), StringValue(Hi),
     TimestampValue([seconds |-> ToU64(1), nanoseconds |-> 2])}

\* C11: EncodeFieldValue into an empty vector writes 58 00 for Null, 08 01 for
\* Boolean(true), 10 2A for Integer(42), 8A 01 02 68 69 for String("hi") and
\* 52 04 08 01 10 02 for Timestamp(1, 2).
C11_LeafBytes ==
    (enc_status # "none" /\ value \in ExpectedBytesOf) =>
        /\ enc_status = "OK"
        /\ out_bytes = ExpectedBytes(value)

\* String("hi") has been encoded, with its tag of two bytes.
C11_Witness ==
    /\ pc = "encoded"
    /\ value = StringValue(Hi)
    /\ out_bytes = <<138, 1, 2, 104, 105>>

\* The name parses into more than 4 segments that are projects, the
\* Serializer's project_id, databases, its database_id and documents.
NameOfThisDatabase ==
    /\ Len(FromString(name)) > 4
    /\ FromString(name)[1] = Str("projects")
    /\ FromString(name)[2] = database_id.project_id
    /\ FromString(name)[3] = Str("databases")
    /\ FromString(name)[4] = database_id.database_id
    /\ FromString(name)[5] = Str("documents")

C13_DecodeKeyChecks ==
    kpc \in {"decoded", "decoded changed"} =>
        /\ decoded_key.outcome = "key" => NameOfThisDatabase
        /\ ~NameOfThisDatabase => decoded_key.outcome = "abort"

\* DecodeKey has stopped on the name of a key of another database of the same
\* project.
C13_Witness ==
    /\ kpc = "decoded changed"
    /\ Len(FromString(name)) > 5
    /\ FromString(name)[2] = database_id.project_id
    /\ FromString(name)[4] # database_id.database_id
    /\ FromString(name)[4] \in {Str("d"), Str("p")}
    /\ FromString(name)[5] = Str("documents")
    /\ decoded_key.outcome = "abort"

\* bytes_written of a Writer::Sizing() after EncodeFieldValueImpl of value.
SizedLength == EncodeFieldValueImpl(WriterSizing, value).bytes_written

\* bytes_written of the Writer::Wrap of an empty vector after
\* EncodeFieldValueImpl of value.
WrittenLength == EncodeFieldValue(value, <<>>).bytes_written

\* C14: for every supported value, EncodeFieldValueImpl on a size-only Writer
\* and on a Writer wrapping an empty vector end with the same bytes_written,
\* which is the length of the vector; the size-only Writer keeps status OK.
C14_SizeModeEquivalence ==
    (enc_status # "none" /\ Supported(value)) =>
        /\ EncodeFieldValueImpl(WriterSizing, value).status = "OK"
        /\ ~EncodeFieldValueImpl(WriterSizing, value).aborted
        /\ SizedLength = WrittenLength
        /\ WrittenLength = Len(out_bytes)

\* An object of two entries holding a timestamp has been encoded, and both
\* Writers counted its 28 bytes or more.
C14_Witness ==
    /\ pc = "encoded"
    /\ value.type = "Object"
    /\ DOMAIN value.object_value = {Key(1), Key(2)}
    /\ value.object_value[Key(1)].type = "Timestamp"
    /\ value.object_value[Key(2)].type = "String"
    /\ SizedLength = Len(out_bytes)
    /\ Len(out_bytes) >= 28

\* The position of the last byte of the varint that starts at p, 0 when no
\* varint of at most ten bytes ends at or before hi.
RECURSIVE VarintEnd(_, _, _, _)
VarintEnd(bytes, p, hi, n) ==
    IF p > hi \/ n > 10 THEN 0
    ELSE IF bytes[p] < 128 THEN p
    ELSE VarintEnd(bytes, p + 1, hi, n + 1)

\* bytes[lo..hi] is a sequence of whole seconds and nanos fields.
RECURSIVE TimestampFramed(_, _, _)
TimestampFramed(bytes, lo, hi) ==
    \/ lo = hi + 1
    \/ /\ lo < hi
       /\ bytes[lo] \in {Timestamp_seconds_tag * 8 + PB_WT_VARINT,
                         Timestamp_nanos_tag * 8 + PB_WT_VARINT}
       /\ VarintEnd(bytes, lo + 1, hi, 1) # 0
       /\ TimestampFramed(bytes, VarintEnd(bytes, lo + 1, hi, 1) + 1, hi)

RECURSIVE ValueFramed(_, _, _)
RECURSIVE EntriesFramed(_, _, _)

\* bytes[lo..hi] is one FieldsEntry: the key with its length, then the value
\* whose length prefix counts exactly the bytes up to hi, themselves one Value.
EntryFramed(bytes, lo, hi) ==
    /\ lo + 1 <= hi
    /\ bytes[lo] = FieldsEntry_key_tag * 8 + PB_WT_STRING
    /\ bytes[lo + 1] < 128
    /\ lo + 3 + bytes[lo + 1] <= hi
    /\ bytes[lo + 2 + bytes[lo + 1]] = FieldsEntry_value_tag * 8 + PB_WT_STRING
    /\ bytes[lo + 3 + bytes[lo + 1]] = hi - (lo + 3 + bytes[lo + 1])
    /\ ValueFramed(bytes, lo + 4 + bytes[lo + 1], hi)

\* bytes[lo..hi] is a sequence of fields entries, each with a length prefix
\* that counts exactly its bytes.
EntriesFramed(bytes, lo, hi) ==
    \/ lo = hi + 1
    \/ /\ lo < hi
       /\ bytes[lo] = MapValue_fields_tag * 8 + PB_WT_STRING
       /\ bytes[lo + 1] < 128
       /\ lo + 1 + bytes[lo + 1] <= hi
       /\ EntryFramed(bytes, lo + 2, lo + 1 + bytes[lo + 1])
       /\ EntriesFramed(bytes, lo + 2 + bytes[lo + 1], hi)

\* bytes[lo..hi] is one Value field: a tag and a whole varint, or a tag, a
\* length and exactly that many bytes up to hi, framed in turn.
ValueFramed(bytes, lo, hi) ==
    /\ lo < hi
    /\ \/ /\ bytes[lo] \in {Value_null_value_tag * 8 + PB_WT_VARINT,
                            Value_boolean_value_tag * 8 + PB_WT_VARINT,
                            Value_integer_value_tag * 8 + PB_WT_VARINT}
          /\ VarintEnd(bytes, lo + 1, hi, 1) = hi
       \/ /\ bytes[lo] = 138
          /\ lo + 2 <= hi
          /\ bytes[lo + 1] = 1
          /\ bytes[lo + 2] = hi - (lo + 2)
       \/ /\ bytes[lo] = Value_timestamp_value_tag * 8 + PB_WT_STRING
          /\ bytes[lo + 1] = hi - (lo + 1)
          /\ TimestampFramed(bytes, lo + 2, hi)
       \/ /\ bytes[lo] = Value_map_value_tag * 8 + PB_WT_STRING
          /\ bytes[lo + 1] = hi - (lo + 1)
          /\ EntriesFramed(bytes, lo + 2, hi)

\* C15: in the bytes EncodeFieldValue writes for an Object or a Timestamp,
\* every length prefix (of the MapValue, of each fields entry, of each nested
\* Value and of the Timestamp) is the number of bytes of that submessage
\* that follow it.
C15_LengthsConsistent ==
    (enc_status # "none" /\ Supported(value)
        /\ value.type \in {"Object", "Timestamp"}) =>
        /\ enc_status = "OK"
        /\ ValueFramed(out_bytes, 1, Len(out_bytes))

\* An object whose first entry holds the latest timestamp has been encoded:
\* three length prefixes around the timestamp's own.
C15_Witness ==
    /\ pc = "encoded"
    /\ value.type = "Object"
    /\ DOMAIN value.object_value = {Key(1), Key(2)}
    /\ value.object_value[Key(1)] =
           TimestampValue([seconds |-> MaxSeconds, nanoseconds |-> MaxNanos])
    /\ out_bytes[2] = Len(out_bytes) - 2
    /\ out_bytes[4] = 20
    /\ out_bytes[9] = 15
    /\ out_bytes[11] = 13

\* A Reader over the input whose status has been set.
FailedReader == [ReaderWrap(input) EXCEPT !.status = "end-of-stream"]

\* Every operation on a Reader whose status is not OK reads nothing, returns
\* a zero or empty value and leaves the Reader as it is.
C16_FailedReaderOpsAreNoOps ==
    DecodeCalled =>
        /\ ReadTag(FailedReader) = [r |-> FailedReader, v |-> NoTag]
        /\ ReadVarint(FailedReader) = [r |-> FailedReader, v |-> Zero64]
        /\ ReadNull(FailedReader) = FailedReader
        /\ ReadBool(FailedReader) = [r |-> FailedReader, v |-> FALSE]
        /\ ReadInteger(FailedReader) = [r |-> FailedReader, v |-> Zero64]
        /\ ReadString(FailedReader) = [r |-> FailedReader, v |-> <<>>]
        /\ ReadNanopbMessage(FailedReader, [seconds |-> Zero64, nanos |-> 0])
               = [r |-> FailedReader, v |-> [seconds |-> Zero64, nanos |-> 0]]
        /\ ~ReadNestedMessageOpen(FailedReader).ok
        /\ ReadNestedMessageOpen(FailedReader).r = FailedReader
        /\ DecodeTimestamp(FailedReader) = [r |-> FailedReader, v |-> Epoch]
        /\ DecodeObject(FailedReader) = [r |-> FailedReader, v |-> EmptyMap]
        /\ DecodeFieldValueImpl(FailedReader) = [r |-> FailedReader, v |-> NullValue]

\* The input starts with the tag of a timestamp_value and a length that fits.
TimestampInput ==
    /\ input # <<>>
    /\ input[1] = Value_timestamp_value_tag * 8 + PB_WT_STRING
    /\ ReadNestedMessageOpen(ReadTag(ReaderWrap(input)).r).ok

\* The Reader DecodeTimestamp runs on, for such an input.
TimestampBody == ReadNestedMessageOpen(ReadTag(ReaderWrap(input)).r).sub

\* That Reader after the ReadNanopbMessage of DecodeTimestamp.
TimestampRead ==
    ReadNanopbMessage(TimestampBody, [seconds |-> Zero64, nanos |-> 0]).r

\* C16: once the status of a Reader is not OK, every later operation on it
\* reads nothing and returns a zero value, and the steps that follow, the
\* range checks of DecodeTimestamp among them, leave the status as first set.
C16_StickyReaderFailure ==
    /\ C16_FailedReaderOpsAreNoOps
    /\ (DecodeCalled /\ TimestampInput /\ TimestampRead.status # "OK") =>
           /\ DecodeTimestamp(TimestampBody).r.status = TimestampRead.status
           /\ DecodeTimestamp(TimestampBody).r.pos = TimestampRead.pos
           /\ decoded.outcome = "error" => decoded.status = TimestampRead.status

\* The Reader over the value region of a map entry after the body function,
\* DecodeFieldValueImpl, has returned.
AfterBody(bytes) == DecodeFieldValueImpl(ReaderWrap(bytes)).r

\* The input is an object of one entry, and the body function run on the
\* region of the entry's value returned with bytes of the region unread.
ResidueInValueRegion ==
    \E bytes \in RawInputs :
        /\ input = InMapEntry(bytes)
        /\ ~AfterBody(bytes).aborted
        /\ AfterBody(bytes).bytes_left > 0

\* C17: when the body function of ReadNestedMessage returns, with or without
\* an error, and bytes of the bounded region are unread, DecodeFieldValue
\* returns DATA_LOSS.
C17_ResidueIsDataLoss ==
    (DecodeCalled /\ ResidueInValueRegion) => decoded.outcome = "error"

====
